---------------------------- MODULE Spec2Model ----------------------------
(***************************************************************************)
(* hifzr: a paginated, rate-limited verse fetch (api.rs), the per-verse    *)
(* audio/sidecar materializer (download.rs) and the playlist builder       *)
(* (hifz.rs), modelled as state machines over one destination directory,   *)
(* and the choice of that directory by the commands of main.rs.            *)
(*                                                                         *)
(* Text (file names, verse specifications) is a sequence of one-character  *)
(* strings, so that splitting, trimming, parsing and formatting are        *)
(* computed the way the code computes them.                                *)
(***************************************************************************)
EXTENDS Integers, Sequences, FiniteSets, TLC

VARIABLES
    ps_pc,       \* parse_verses_spec: "call" before the call, "ret" after it
    ps_spec,     \* parse_verses_spec: the argument `spec`
    ps_res,      \* parse_verses_spec: the returned Result<Vec<u32>>
    dir,         \* the destination directory: file name -> file content
    hz_calls,    \* build_ayah_playlist: calls made so far
    hz_args,     \* build_ayah_playlist: arguments of the last call
    hz_list,     \* build_ayah_playlist: `list` of the last call (a Result)
    hz_silence,  \* build_ayah_playlist: `silence` of the last call (an Option)
    hz_ffmpeg,   \* build_ayah_playlist: ffmpeg runs started by the last call
    hz_ret,      \* build_ayah_playlist: what the last call returned (a Result)
    dl_pc,       \* run_filter: where the call stands (the await it is at)
    dl_args,     \* run_filter: `force` and `only_verses` of the current call
    dl_before,   \* run_filter: the directory when the current call began
    dl_verses,   \* run_filter: what fetch_chapter returned (a Result)
    dl_idx,      \* run_filter: position of the for loop in `verses`
    dl_done,     \* run_filter: `done`
    dl_log,      \* run_filter: requests and writes of the current call
    dl_status,   \* run_filter: status of the last audio response (0: none)
    fc_page,     \* fetch_chapter: `page`
    fc_out,      \* fetch_chapter: `out`
    fc_queries,  \* fetch_chapter: the query of every get_page call made
    fc_pages,    \* fetch_chapter: the responses get_page decoded
    gp_tries,    \* get_page: `tries`
    gp_sleep,    \* get_page: milliseconds of the sleep in progress
    gp_status,   \* get_page: status of the last response (0: none yet)
    gp_sends,    \* get_page: requests sent by the current call
    gp_waits,    \* get_page: the sleeps of the current call, in order
    mn_cmd,      \* main: the command line and environment of the last run
    mn_filter,   \* main: the directory the last run gave run_filter (Option)
    mn_build,    \* main: the directory it gave build_ayah_playlist (Option)
    mn_ret       \* main: what the last run returned (a Result)

psVars == <<ps_pc, ps_spec, ps_res>>

hzVars == <<hz_calls, hz_args, hz_list, hz_silence, hz_ffmpeg, hz_ret>>

dlVars == <<dl_pc, dl_args, dl_before, dl_verses, dl_idx, dl_done,
            dl_log, dl_status>>

fcVars == <<fc_page, fc_out, fc_queries, fc_pages>>

gpVars == <<gp_tries, gp_sleep, gp_status, gp_sends, gp_waits>>

mnVars == <<mn_cmd, mn_filter, mn_build, mn_ret>>

vars == <<ps_pc, ps_spec, ps_res, dir,
          hz_calls, hz_args, hz_list, hz_silence, hz_ffmpeg, hz_ret,
          dl_pc, dl_args, dl_before, dl_verses, dl_idx, dl_done,
          dl_log, dl_status, fc_page, fc_out, fc_queries, fc_pages,
          gp_tries, gp_sleep, gp_status, gp_sends, gp_waits,
          mn_cmd, mn_filter, mn_build, mn_ret>>

(***************************************************************************)
(* Bounds of the model.                                                    *)
(***************************************************************************)
\* longest verse specification enumerated character by character
MaxSpecLen == 4
\* largest `repeat` argument of build_ayah_playlist
MaxRepeat == 2
\* build_ayah_playlist calls in one behaviour
MaxBuilds == 2
\* chunks in the body of one audio response
NChunks == 2
\* get_page calls in one fetch_chapter call
MaxPages == 2
\* verses in one page of the upstream's answer
MaxPerPage == 2

(***************************************************************************)
(* Result<T>: Ok(v) and Err                                                *)
(***************************************************************************)
Ok(v) == [ok |-> TRUE, val |-> v]
Err == [ok |-> FALSE, val |-> <<>>]

\* Option<T>: None and Some(v)
None == <<>>
Some(v) == <<v>>

(***************************************************************************)
(* Text helpers                                                            *)
(***************************************************************************)
Digits == <<"0", "1", "2", "3", "4", "5", "6", "7", "8", "9">>

IsDigit(c) == \E i \in 1..10 : Digits[i] = c

DigitVal(c) == (CHOOSE i \in 1..10 : Digits[i] = c) - 1

\* the value of a non-empty run of decimal digits
RECURSIVE DigitsValue(_)
DigitsValue(s) ==
    IF s = <<>> THEN 0
    ELSE DigitsValue(SubSeq(s, 1, Len(s) - 1)) * 10 + DigitVal(s[Len(s)])

\* str::parse::<u32>(): an optional leading '+', then one or more decimal
\* digits; anything else is an error.  (A value past u32::MAX is an error
\* too: it takes ten digits, more than any text enumerated here holds.)
ParseU32(s) ==
    LET body == IF Len(s) > 0 /\ s[1] = "+" THEN Tail(s) ELSE s
    IN  IF body = <<>> THEN Err
        ELSE IF \E i \in 1..Len(body) : ~IsDigit(body[i]) THEN Err
        ELSE Ok(DigitsValue(body))

\* str::trim(): leading and trailing white space removed
RECURSIVE TrimStart(_)
TrimStart(s) ==
    IF s # <<>> /\ s[1] = " " THEN TrimStart(Tail(s)) ELSE s

RECURSIVE TrimEnd(_)
TrimEnd(s) ==
    IF s # <<>> /\ s[Len(s)] = " " THEN TrimEnd(SubSeq(s, 1, Len(s) - 1)) ELSE s

Trim(s) == TrimEnd(TrimStart(s))

\* position of the first occurrence of character c in s, 0 when there is none
FirstIndex(s, c) ==
    IF \E i \in 1..Len(s) : s[i] = c
    THEN CHOOSE i \in 1..Len(s) : s[i] = c /\ \A j \in 1..(i - 1) : s[j] # c
    ELSE 0

\* str::split(c): the pieces between the occurrences of c, in order
RECURSIVE Split(_, _)
Split(s, c) ==
    LET i == FirstIndex(s, c)
    IN  IF i = 0 THEN <<s>>
        ELSE <<SubSeq(s, 1, i - 1)>> \o Split(SubSeq(s, i + 1, Len(s)), c)

\* a..=b as a Vec
RECURSIVE RangeInclusive(_, _)
RangeInclusive(a, b) ==
    IF a > b THEN <<>> ELSE <<a>> \o RangeInclusive(a + 1, b)

\* slice::sort_unstable() on Vec<u32>: ascending order (insertion of the last
\* element into the sorted rest)
RECURSIVE InsertSorted(_, _)
InsertSorted(s, x) ==
    IF s = <<>> THEN <<x>>
    ELSE IF x <= s[1] THEN <<x>> \o s
    ELSE <<s[1]>> \o InsertSorted(Tail(s), x)

RECURSIVE SortPrefix(_, _)
SortPrefix(s, n) ==
    IF n = 0 THEN <<>> ELSE InsertSorted(SortPrefix(s, n - 1), s[n])

sort_unstable(s) == SortPrefix(s, Len(s))

\* Vec::dedup(): of every run of equal neighbours only the first is kept
RECURSIVE dedup(_)
dedup(s) ==
    IF Len(s) <= 1 THEN s
    ELSE IF s[1] = s[2] THEN dedup(Tail(s))
    ELSE <<s[1]>> \o dedup(Tail(s))

(***************************************************************************)
(* hifz.rs: parse_verses_spec                                              *)
(***************************************************************************)
\* spec.split(',').map(str::trim).filter(|s| !s.is_empty())
SpecParts(spec) ==
    LET raw == Split(spec, ",")
        trimmed == [i \in 1..Len(raw) |-> Trim(raw[i])]
    IN  SelectSeq(trimmed, LAMBDA p : p # <<>>)

\* the range check of one "a-b" part
BadRange(a, b) == a > b

\* one part of the specification: the numbers it adds to `out`, or an error
ParsePart(part) ==
    LET i == FirstIndex(part, "-")
    IN  IF i # 0
        THEN LET a == ParseU32(SubSeq(part, 1, i - 1))
                 b == ParseU32(SubSeq(part, i + 1, Len(part)))
             IN  IF ~a.ok THEN Err
                 ELSE IF ~b.ok THEN Err
                 ELSE IF BadRange(a.val, b.val) THEN Err
                 ELSE Ok(RangeInclusive(a.val, b.val))
        ELSE LET n == ParseU32(part)
             IN  IF ~n.ok THEN Err ELSE Ok(<<n.val>>)

\* the for loop: the first failing part ends the whole parse
RECURSIVE ParseParts(_, _)
ParseParts(parts, out) ==
    IF parts = <<>> THEN Ok(out)
    ELSE LET r == ParsePart(parts[1])
         IN  IF ~r.ok THEN Err ELSE ParseParts(Tail(parts), out \o r.val)

\* (mutation of SortDedup: the dedup() call is left out)
SortDedup_NoDedup(out) == sort_unstable(out)

\* out.sort_unstable(); out.dedup();
SortDedup(out) == dedup(sort_unstable(out))

parse_verses_spec(spec) ==
    LET r == ParseParts(SpecParts(spec), <<>>)
    IN  IF ~r.ok THEN Err ELSE Ok(SortDedup(r.val))

(***************************************************************************)
(* File names and file contents                                            *)
(***************************************************************************)
\* the decimal digits of n, as format!("{}", n) writes them
RECURSIVE ToDigits(_)
ToDigits(n) ==
    IF n < 10 THEN <<Digits[n + 1]>>
    ELSE ToDigits(n \div 10) \o <<Digits[(n % 10) + 1]>>

\* format!("{:03}", n): at least three digits, padded with zeros on the left
RECURSIVE PadZeros(_, _)
PadZeros(s, width) ==
    IF Len(s) >= width THEN s ELSE PadZeros(<<"0">> \o s, width)

Fmt03(n) == PadZeros(ToDigits(n), 3)

DotMp3 == <<".", "m", "p", "3">>

\* format!("{:03}.mp3", ayah)
Mp3Name(ayah) == Fmt03(ayah) \o DotMp3

\* format!("{:03}.segments.json", ayah)
SegName(ayah) ==
    Fmt03(ayah) \o <<".", "s", "e", "g", "m", "e", "n", "t", "s",
                     ".", "j", "s", "o", "n">>

\* format!(".silence_{}ms.mp3", gap_ms)
SilenceName(gap_ms) ==
    <<".", "s", "i", "l", "e", "n", "c", "e", "_">> \o ToDigits(gap_ms)
        \o <<"m", "s">> \o DotMp3

\* "hifz_ayah.m3u"
M3uName == <<"h", "i", "f", "z", "_", "a", "y", "a", "h", ".", "m", "3", "u">>

\* "latest_playlist.txt"
PointerName ==
    <<"l", "a", "t", "e", "s", "t", "_", "p", "l", "a", "y", "l", "i", "s", "t",
      ".", "t", "x", "t">>

\* the first line of the playlist
M3uHeader == <<"#", "E", "X", "T", "M", "3", "U">>

\* the body of one audio response, complete
CompleteAudio == [k \in 1..NChunks |-> k]

\* what a successful ffmpeg run leaves in the clip
SilenceAudio(gap_ms) == <<gap_ms>>

Exists(d, name) == name \in DOMAIN d

\* the directory d with file `name` created or replaced, holding `content`
WriteFile(d, name, content) ==
    [n \in DOMAIN d \cup {name} |-> IF n = name THEN content ELSE d[n]]

\* position of the last occurrence of character c in s, 0 when there is none
LastIndex(s, c) ==
    IF \E i \in 1..Len(s) : s[i] = c
    THEN CHOOSE i \in 1..Len(s) :
             s[i] = c /\ \A j \in (i + 1)..Len(s) : s[j] # c
    ELSE 0

\* Path::extension(): what follows the last '.', unless there is no '.' or the
\* only one starts the name
extension(name) ==
    LET i == LastIndex(name, ".")
    IN  IF i <= 1 THEN None ELSE Some(SubSeq(name, i + 1, Len(name)))

\* Path::file_stem(): the name without its extension
file_stem(name) ==
    LET i == LastIndex(name, ".")
    IN  IF i <= 1 THEN name ELSE SubSeq(name, 1, i - 1)

\* the elements of a finite set in the order an iterator happens to yield them
RECURSIVE SetToSeq(_)
SetToSeq(S) ==
    IF S = {} THEN <<>>
    ELSE LET x == CHOOSE y \in S : TRUE IN <<x>> \o SetToSeq(S \ {x})

(***************************************************************************)
(* hifz.rs: detect_available_ayahs                                         *)
(***************************************************************************)
\* the body of the for loop: what one directory entry pushes to `v`
DetectEntry(name) ==
    IF extension(name) # Some(<<"m", "p", "3">>) THEN <<>>
    ELSE LET n == ParseU32(file_stem(name))
         IN  IF n.ok THEN <<n.val>> ELSE <<>>

RECURSIVE DetectEntries(_)
DetectEntries(names) ==
    IF names = <<>> THEN <<>>
    ELSE DetectEntry(names[1]) \o DetectEntries(Tail(names))

\* (mutation of DetectSortDedup: the entries are kept in directory order)
DetectSortDedup_Unsorted(v) == v

\* v.sort_unstable(); v.dedup();
DetectSortDedup(v) == dedup(sort_unstable(v))

\* read_dir_ok: whether std::fs::read_dir and its entries succeed
detect_available_ayahs(d, read_dir_ok) ==
    IF ~read_dir_ok THEN Err
    ELSE Ok(DetectSortDedup(DetectEntries(SetToSeq(DOMAIN d))))

(***************************************************************************)
(* hifz.rs: ensure_silence_mp3                                             *)
(***************************************************************************)
\* (mutation of ensure_silence_mp3: an existing clip is generated again)
ensure_silence_mp3_AlwaysRuns(d, gap_ms, ffmpeg_ok) ==
    IF gap_ms = 0 THEN [path |-> None, dir |-> d, runs |-> 0]
    ELSE IF ffmpeg_ok
    THEN [path |-> Some(SilenceName(gap_ms)),
          dir |-> WriteFile(d, SilenceName(gap_ms), SilenceAudio(gap_ms)),
          runs |-> 1]
    ELSE [path |-> None, dir |-> d, runs |-> 1]

\* (mutation of ensure_silence_mp3: the path is returned although ffmpeg
\* failed)
ensure_silence_mp3_PathOnFailure(d, gap_ms, ffmpeg_ok) ==
    IF gap_ms = 0 THEN [path |-> None, dir |-> d, runs |-> 0]
    ELSE IF Exists(d, SilenceName(gap_ms))
    THEN [path |-> Some(SilenceName(gap_ms)), dir |-> d, runs |-> 0]
    ELSE [path |-> Some(SilenceName(gap_ms)),
          dir |-> IF ffmpeg_ok
                  THEN WriteFile(d, SilenceName(gap_ms), SilenceAudio(gap_ms))
                  ELSE d,
          runs |-> 1]

\* ffmpeg_ok: whether ffmpeg starts and exits successfully.  The result is
\* the returned Option, the directory afterwards and the ffmpeg runs started.
ensure_silence_mp3(d, gap_ms, ffmpeg_ok) ==
    IF gap_ms = 0 THEN [path |-> None, dir |-> d, runs |-> 0]
    ELSE IF Exists(d, SilenceName(gap_ms))
    THEN [path |-> Some(SilenceName(gap_ms)), dir |-> d, runs |-> 0]
    ELSE IF ffmpeg_ok
    THEN [path |-> Some(SilenceName(gap_ms)),
          dir |-> WriteFile(d, SilenceName(gap_ms), SilenceAudio(gap_ms)),
          runs |-> 1]
    ELSE [path |-> None, dir |-> d, runs |-> 1]

(***************************************************************************)
(* hifz.rs: build_ayah_playlist                                            *)
(***************************************************************************)
GapThreshold == 500

\* (mutation of GapExceedsThreshold: any nonzero gap counts)
GapExceedsThreshold_AnyGap(gap_ms) == gap_ms > 0

\* (gap_ms).abs_diff(0) > 500
GapExceedsThreshold(gap_ms) == gap_ms > GapThreshold

\* (mutation of MissingAudio: a missing file is listed all the same)
MissingAudio_Never(d, ayah) == FALSE

\* !mp3.exists()
MissingAudio(d, ayah) == ~Exists(d, Mp3Name(ayah))

\* (mutation of RepeatLines: no silence after the repeat before the last)
RECURSIVE RepeatLines_NoGapBetween(_, _, _, _, _)
RepeatLines_NoGapBetween(r, repeat, ayah, silence, gap_ms) ==
    IF r >= repeat THEN <<>>
    ELSE <<Mp3Name(ayah)>>
         \o RepeatLines_NoGapBetween(r + 1, repeat, ayah, silence, gap_ms)

\* for r in 0..repeat: the file, then the clip unless this is the last repeat
RECURSIVE RepeatLines(_, _, _, _, _)
RepeatLines(r, repeat, ayah, silence, gap_ms) ==
    IF r >= repeat THEN <<>>
    ELSE <<Mp3Name(ayah)>>
         \o (IF silence # None /\ GapExceedsThreshold(gap_ms) /\ r + 1 < repeat
             THEN <<silence[1]>> ELSE <<>>)
         \o RepeatLines(r + 1, repeat, ayah, silence, gap_ms)

\* the lines one ayah of `list` adds to the playlist
AyahLines(d, ayah, repeat, silence, gap_ms) ==
    IF MissingAudio(d, ayah) THEN <<>>
    ELSE RepeatLines(0, repeat, ayah, silence, gap_ms)
         \o (IF silence # None /\ GapExceedsThreshold(gap_ms)
             THEN <<silence[1]>> ELSE <<>>)

\* for ayah in list
RECURSIVE ListLines(_, _, _, _, _)
ListLines(d, list, repeat, silence, gap_ms) ==
    IF list = <<>> THEN <<>>
    ELSE AyahLines(d, list[1], repeat, silence, gap_ms)
         \o ListLines(d, Tail(list), repeat, silence, gap_ms)

\* (mutation of SelectList: a failed selection goes on as an empty one)
SelectList_EmptyOnError(d, verses, read_dir_ok) ==
    LET r == IF verses # None THEN parse_verses_spec(verses[1])
             ELSE detect_available_ayahs(d, read_dir_ok)
    IN  IF r.ok THEN r ELSE Ok(<<>>)

\* let list = match verses { Some(spec) => parse_verses_spec(spec)?,
\*                           None => detect_available_ayahs(&dir)? };
SelectList(d, verses, read_dir_ok) ==
    IF verses # None THEN parse_verses_spec(verses[1])
    ELSE detect_available_ayahs(d, read_dir_ok)

(***************************************************************************)
(* Specification SpecParse: parse_verses_spec applied to one argument      *)
(***************************************************************************)
SpecAlphabet == {"1", "2", "3", ",", "-", " "}

RECURSIVE StringsOfLen(_, _)
StringsOfLen(A, n) ==
    IF n = 0 THEN {<<>>}
    ELSE {<<c>> \o s : c \in A, s \in StringsOfLen(A, n - 1)}

\* "1-3,5,7-8" and "5-2", the two specifications the documentation names
ExampleSpecValid == <<"1", "-", "3", ",", "5", ",", "7", "-", "8">>
ExampleSpecBad == <<"5", "-", "2">>

ParseInputs ==
    UNION {StringsOfLen(SpecAlphabet, n) : n \in 0..MaxSpecLen}
        \cup {ExampleSpecValid, ExampleSpecBad,
              <<"3", "-", "1", ",", "2">>, <<"2", ",", "3", "-", "1">>,
              <<" ", "2", "-", "3", " ", ",", ",", "1", " ">>,
              <<"+", "2">>, <<"1", "0", ",", "9">>}

(***************************************************************************)
(* Specification SpecHifz: build_ayah_playlist called on a directory       *)
(***************************************************************************)
\* what a directory may hold before the first call: for some of the verses
\* 1, 2, 3 and 10 the audio file and sidecar a download leaves, and possibly
\* an audio file named "1.mp3"
InitialVerses == {1, 2, 3, 10}

UnpaddedName == <<"1">> \o DotMp3

InitialDir(V, withUnpadded) ==
    [n \in {Mp3Name(v) : v \in V} \cup {SegName(v) : v \in V}
            \cup (IF withUnpadded THEN {UnpaddedName} ELSE {}) |->
        IF n \in {SegName(v) : v \in V} THEN << <<100, 250>> >>
        ELSE CompleteAudio]

\* the `verses` argument: None, "2, 1-2" and "5-2"
VersesArgs ==
    {None, Some(<<"2", ",", " ", "1", "-", "2">>), Some(ExampleSpecBad)}

InitialDirs ==
    {InitialDir(V, FALSE) : V \in SUBSET InitialVerses}
        \cup {InitialDir(V, TRUE) : V \in {{}, {1}, {2}}}

GapArgs == {0, 200, 500, 1000}

\* the arguments recorded before the first call of build_ayah_playlist
NoArgs == [verses |-> None, repeat |-> 0, gap_ms |-> 0]

(***************************************************************************)
(* models.rs: what the upstream answers                                    *)
(***************************************************************************)
\* Segment { start_ms, end_ms }
Seg(s, e) == [start_ms |-> s, end_ms |-> e]

\* Verse { verse_number, audio: Audio { segments } }
Verse(n, segs) == [verse_number |-> n, audio |-> [segments |-> segs]]

\* the chapter the upstream serves: verse 1 with a zero-length, a proper and
\* a reversed segment; verse 2 without a segment list
ChapterVerses ==
    <<Verse(1, Some(<<Seg(100, 100), Seg(100, 250), Seg(300, 200)>>)),
      Verse(2, None)>>

\* the verse lists the upstream may answer a request for `page` with: none,
\* or up to MaxPerPage verses of the chapter from verse number `page` on
PageVerseLists(page) ==
    {<<>>} \cup {SubSeq(ChapterVerses, page, page + n - 1) :
                    n \in {k \in 1..MaxPerPage :
                              page + k - 1 <= Len(ChapterVerses)}}

\* Option<Pagination>, Pagination { next_page: Option<u32> }
Paginations ==
    {None, Some([next_page |-> None])}
        \cup {Some([next_page |-> Some(p)]) : p \in 1..MaxPages}

\* ChapterResponse { verses, pagination }
ChapterResponses(page) ==
    [verses : PageVerseLists(page), pagination : Paginations]

\* HTTP statuses the upstream may answer with
Statuses == {200, 429, 500}

(***************************************************************************)
(* api.rs: get_page and fetch_chapter                                      *)
(***************************************************************************)
PerPage == 50

MaxTries == 5

BackoffBaseMs == 250

TooManyRequests == 429

\* ChapterQuery { page: Some(page), per_page: Some(50), words: Some(false) }
ChapterQuery(page) ==
    [page |-> Some(page), per_page |-> Some(PerPage), words |-> Some(FALSE)]

\* (mutation of RetryAllowed: every error status is retried)
RetryAllowed_AnyError(status, tries) == status >= 400 /\ tries < MaxTries

\* (mutation of RetryAllowed: one retry too many)
RetryAllowed_OneMore(status, tries) ==
    status = TooManyRequests /\ tries <= MaxTries

\* status == StatusCode::TOO_MANY_REQUESTS && tries < 5
RetryAllowed(status, tries) == status = TooManyRequests /\ tries < MaxTries

\* 250 * (1 << tries)
BackoffMs(tries) == BackoffBaseMs * (2 ^ tries)

\* Response::error_for_status(): a 4xx or 5xx status is an error
IsErrorStatus(status) == status >= 400 /\ status <= 599

\* parsed.pagination.and_then(|p| p.next_page)
NextPage(parsed) ==
    IF parsed.pagination = None THEN None
    ELSE parsed.pagination[1].next_page

\* (mutation of FetchStep: the verses of the last page are not collected)
FetchStep_DropLast(out, parsed) ==
    IF parsed.verses = <<>> \/ NextPage(parsed) = None
    THEN [done |-> TRUE, out |-> out, page |-> 0]
    ELSE [done |-> FALSE, out |-> out \o parsed.verses,
          page |-> NextPage(parsed)[1]]

\* the body of fetch_chapter's loop after get_page returned `parsed`:
\* whether the loop ends, `out` and the next `page`
FetchStep(out, parsed) ==
    IF parsed.verses = <<>> THEN [done |-> TRUE, out |-> out, page |-> 0]
    ELSE IF NextPage(parsed) = None
    THEN [done |-> TRUE, out |-> out \o parsed.verses, page |-> 0]
    ELSE [done |-> FALSE, out |-> out \o parsed.verses,
          page |-> NextPage(parsed)[1]]

\* (mutation of OnPageError: the verses collected so far are returned)
OnPageError_Partial(out) == Ok(out)

\* get_page(client, &url, &pq).await?  when get_page returned an error
OnPageError(out) == Err

(***************************************************************************)
(* download.rs: run_filter                                                 *)
(***************************************************************************)
\* if let Some(w) = &wanted { if !w.contains(&v.verse_number) { continue; } }
Wanted(only_verses, v) ==
    only_verses = None \/ v.verse_number \in only_verses[1]

\* (mutation of NeedsDownload: an existing file is downloaded again)
NeedsDownload_Always(force, d, ayah) == TRUE

\* force || !mp3.exists()
NeedsDownload(force, d, ayah) == force \/ ~Exists(d, Mp3Name(ayah))

\* (mutation of KeepSegment: zero-length segments are kept)
KeepSegment_ZeroLength(s) == s.end_ms >= s.start_ms

\* (ems > sms).then_some([sms, ems])
KeepSegment(s) == s.end_ms > s.start_ms

\* let pairs: Vec<[u32; 2]> = match v.audio.segments.as_ref() { .. }
SegmentPairs(v) ==
    IF v.audio.segments = None THEN <<>>
    ELSE LET kept == SelectSeq(v.audio.segments[1], KeepSegment)
         IN  [i \in 1..Len(kept) |-> <<kept[i].start_ms, kept[i].end_ms>>]

\* the `force` and `only_verses` arguments
RunFilterArgs ==
    [force : BOOLEAN, only_verses : {None, Some({1})}]

(***************************************************************************)
(* lookup.rs and main.rs: names, slugs and the directory of a chapter      *)
(***************************************************************************)
UpperCase == <<"A", "B", "C", "D", "E", "F", "G", "H", "I", "J", "K", "L", "M",
               "N", "O", "P", "Q", "R", "S", "T", "U", "V", "W", "X", "Y", "Z">>

LowerCase == <<"a", "b", "c", "d", "e", "f", "g", "h", "i", "j", "k", "l", "m",
               "n", "o", "p", "q", "r", "s", "t", "u", "v", "w", "x", "y", "z">>

\* U+0304, the one character of the names below that is not ASCII.  A name
\* is written in its decomposed form, which nfkd() leaves as it is: the
\* letter a with a macron is the letter a followed by U+0304.
CombiningMacron == "U+0304"

is_ascii(c) == c # CombiningMacron

is_ascii_alphanumeric(c) ==
    \/ IsDigit(c)
    \/ \E i \in DOMAIN UpperCase : c = UpperCase[i] \/ c = LowerCase[i]

to_lowercase(c) ==
    IF \E i \in DOMAIN UpperCase : c = UpperCase[i]
    THEN LowerCase[CHOOSE i \in DOMAIN UpperCase : c = UpperCase[i]]
    ELSE c

\* norm_key: the ASCII characters, in lower case, letters and digits only
norm_key(s) ==
    LET ascii == SelectSeq(s, is_ascii)
        lower == [i \in 1..Len(ascii) |-> to_lowercase(ascii[i])]
    IN  SelectSeq(lower, is_ascii_alphanumeric)

\* the for loop of slugify over the lower-case characters of `s`
RECURSIVE SlugLoop(_, _, _)
SlugLoop(s, out, dash) ==
    IF s = <<>> THEN out
    ELSE LET ch == to_lowercase(Head(s))
         IN  IF is_ascii_alphanumeric(ch)
             THEN SlugLoop(Tail(s), Append(out, ch), FALSE)
             ELSE IF ~dash
                  THEN SlugLoop(Tail(s), Append(out, "-"), TRUE)
                  ELSE SlugLoop(Tail(s), out, dash)

\* str::trim_matches('-')
RECURSIVE trim_matches_dash(_)
trim_matches_dash(s) ==
    IF s = <<>> THEN s
    ELSE IF Head(s) = "-" THEN trim_matches_dash(Tail(s))
    ELSE IF s[Len(s)] = "-" THEN trim_matches_dash(SubSeq(s, 1, Len(s) - 1))
    ELSE s

slugify(s) == trim_matches_dash(SlugLoop(s, <<>>, FALSE))

\* format!("{}-{:03}", slugify(&c.name_simple), c.id)
chapter_slug(c) == slugify(c.name_simple) \o <<"-">> \o Fmt03(c.id)

\* str::contains(&str)
contains(s, pat) ==
    \E i \in 0..(Len(s) - Len(pat)) : SubSeq(s, i + 1, i + Len(pat)) = pat

\* Iterator::find: the first element of `seq` whose index is in `hits`
FindFirst(seq, hits) ==
    IF hits = {} THEN None
    ELSE Some(seq[CHOOSE i \in hits : \A j \in hits : i <= j])

resolve_chapter(chapters, spec) ==
    IF ParseU32(spec).ok
    THEN FindFirst(chapters, {i \in DOMAIN chapters :
                                 chapters[i].id = ParseU32(spec).val})
    ELSE LET key == norm_key(spec)
         IN  FindFirst(chapters,
                       {i \in DOMAIN chapters :
                           \/ norm_key(chapters[i].name_simple) = key
                           \/ norm_key(chapters[i].name_complex) = key})

\* the closure of resolve_reciter
ReciterMatches(r, key) ==
    LET n == norm_key(r.reciter_name)
        s == IF r.style = None THEN <<>> ELSE norm_key(r.style[1])
    IN  contains(n, key) \/ contains(key, n) \/ (s # <<>> /\ s = key)

resolve_reciter(reciters, spec) ==
    IF ParseU32(spec).ok
    THEN FindFirst(reciters, {i \in DOMAIN reciters :
                                 reciters[i].id = ParseU32(spec).val})
    ELSE FindFirst(reciters, {i \in DOMAIN reciters :
                                 ReciterMatches(reciters[i], norm_key(spec))})

\* PathBuf::push on a Unix path: an absolute `p` replaces the path, any
\* other is appended, after a separator unless the path is empty or ends
\* with one
PathPush(path, p) ==
    IF p # <<>> /\ Head(p) = "/" THEN p
    ELSE IF path # <<>> /\ path[Len(path)] # "/" THEN path \o <<"/">> \o p
    ELSE path \o p

\* `home` is the HOME variable of the environment (an Option)
expand_tilde(p, home) ==
    IF Len(p) >= 2 /\ SubSeq(p, 1, 2) = <<"~", "/">> /\ home # None
    THEN PathPush(home[1], SubSeq(p, 3, Len(p)))
    ELSE p

per_surah_base(out, surah_slug, reciter_slug, home) ==
    PathPush(PathPush(expand_tilde(out, home), surah_slug), reciter_slug)

\* what fetch_chapters decodes: two chapters of the upstream's list
Chapters ==
    << [id |-> 1,
        name_simple |-> <<"A", "l", "-", "F", "a", "t", "i", "h", "a", "h">>,
        name_complex |-> <<"A", "l", "-", "F", "a", CombiningMacron,
                           "t", "i", "h", "a", "h">>],
       [id |-> 2,
        name_simple |-> <<"A", "l", "-", "B", "a", "q", "a", "r", "a", "h">>,
        name_complex |-> <<>>] >>

\* what fetch_reciters decodes: two reciters of the upstream's list
Reciters ==
    << [id |-> 2,
        reciter_name |-> <<"A", "b", "d", "u", "l", " ", "B", "a", "s", "i",
                           "t">>,
        style |-> Some(<<"M", "u", "r", "a", "t", "t", "a", "l">>)],
       [id |-> 7,
        reciter_name |-> <<"M", "i", "s", "h", "a", "r", "i", " ", "a", "l",
                           "-", "'", "A", "f", "a", "s", "y">>,
        style |-> None] >>

\* --chapter: two ids, a name, an id the list does not have
ChapterArgs ==
    { <<"1">>, <<"2">>, <<"9">>,
      <<"a", "l", " ", "f", "a", "t", "i", "h", "a", "h">> }

\* --reciter: an id, a style, a part of a name, an id the list does not have
ReciterArgs ==
    { <<"7">>, <<"9">>, <<"b", "a", "s", "i", "t">>,
      <<"M", "u", "r", "a", "t", "t", "a", "l">> }

\* --out: under the home directory, relative, absolute
OutArgs == { <<"~", "/", "Q">>, <<"q">>, <<"/", "q", "/">> }

\* the HOME variable of the environment: unset, or /h
HomeEnv == { None, Some(<<"/", "h">>) }

\* --verses of the hifz command: omitted, well-formed, malformed
MainVersesArgs == { None, Some(<<"1", "-", "2">>), Some(<<"5", "-", "2">>) }

\* --gap-ms of the hifz command
MainGapArgs == {0, 1000}

\* --repeat of the hifz command; 3 is the default
MainRepeatArgs == {0, 3}

\* before Cli::parse()
NoCmd == [cmd |-> "none"]

\* what a run of main leaves: the run_filter call and the
\* build_ayah_playlist call it made (Options), and what it returned
MainResult(filter, build, ret) ==
    [filter |-> filter, build |-> build, ret |-> ret]

\* the arm Cmd::Download of main.  `chapters` and `reciters` are what
\* fetch_chapters and fetch_reciters returned, `filter_ok` whether
\* run_filter returned Ok; `a` holds the options and HOME.
CmdDownload(a, chapters, reciters, filter_ok) ==
    LET reciter == a.reciter
        chapter == a.chapter
        out == a.out
        force == a.force
        home == a.home
    IN
    IF ~chapters.ok THEN MainResult(None, None, Err)
    ELSE LET c == resolve_chapter(chapters.val, chapter) IN
    IF c = None THEN MainResult(None, None, Err)
    ELSE IF ~reciters.ok THEN MainResult(None, None, Err)
    ELSE LET r == resolve_reciter(reciters.val, reciter) IN
    IF r = None THEN MainResult(None, None, Err)
    ELSE LET out_root == per_surah_base(out, chapter_slug(c[1]),
                                        slugify(r[1].reciter_name), home)
             call == [recitation_id |-> r[1].id, chapter |-> c[1].id,
                      out_root |-> out_root, force |-> force,
                      only_verses |-> None]
         IN  MainResult(Some(call), None, IF filter_ok THEN Ok(<<>>) ELSE Err)

\* the arm Cmd::Hifz of main.  `build_ok` is whether build_ayah_playlist
\* returned Ok; `a` holds the options and HOME.
CmdHifz(a, chapters, reciters, filter_ok, build_ok) ==
    LET chapter == a.chapter
        verses == a.verses
        auto_download == a.auto_download
        reciter == a.reciter
        force == a.force
        repeat == a.repeat
        gap_ms == a.gap_ms
        out == a.out
        home == a.home
    IN
    IF ~chapters.ok THEN MainResult(None, None, Err)
    ELSE LET c == resolve_chapter(chapters.val, chapter) IN
    IF c = None THEN MainResult(None, None, Err)
    ELSE LET surah_slug == chapter_slug(c[1])
             build(out_base) ==
                 [out_root |-> out_base, chapter |-> c[1].id,
                  verses |-> verses, repeat |-> repeat, gap_ms |-> gap_ms]
             done(filter, out_base) ==
                 MainResult(filter, Some(build(out_base)),
                            IF build_ok THEN Ok(<<>>) ELSE Err)
         IN
    IF auto_download \/ reciter # None
    THEN IF reciter = None THEN MainResult(None, None, Err)
         ELSE IF ~reciters.ok THEN MainResult(None, None, Err)
         ELSE LET r == resolve_reciter(reciters.val, reciter[1]) IN
         IF r = None THEN MainResult(None, None, Err)
         ELSE LET rec_base == per_surah_base(out, surah_slug,
                                             slugify(r[1].reciter_name), home)
                  only == IF verses = None THEN Ok(None)
                          ELSE LET p == parse_verses_spec(verses[1])
                               IN  IF p.ok THEN Ok(Some(p.val)) ELSE Err
              IN
         IF ~only.ok THEN MainResult(None, None, Err)
         ELSE LET call == [recitation_id |-> r[1].id, chapter |-> c[1].id,
                           out_root |-> rec_base, force |-> force,
                           only_verses |-> only.val]
              IN  IF ~filter_ok THEN MainResult(Some(call), None, Err)
                  ELSE done(Some(call), rec_base)
    ELSE done(None, PathPush(expand_tilde(out, home), surah_slug))

(***************************************************************************)
(* Actions and specifications                                              *)
(***************************************************************************)
\* SpecParse begins before the call of parse_verses_spec; no directory
InitParse ==
    /\ ps_pc = "call"
    /\ ps_spec \in ParseInputs
    /\ ps_res = Err
    /\ dir = <<>>
    /\ hz_calls = 0
    /\ hz_args = NoArgs
    /\ hz_list = Err
    /\ hz_silence = None
    /\ hz_ffmpeg = 0
    /\ hz_ret = Err
    /\ dl_pc = "idle"
    /\ dl_args = [force |-> FALSE, only_verses |-> None]
    /\ dl_before = <<>>
    /\ dl_verses = Err
    /\ dl_idx = 1
    /\ dl_done = 0
    /\ dl_log = <<>>
    /\ dl_status = 0
    /\ fc_page = 1
    /\ fc_out = <<>>
    /\ fc_queries = <<>>
    /\ fc_pages = <<>>
    /\ gp_tries = 0
    /\ gp_sleep = 0
    /\ gp_status = 0
    /\ gp_sends = 0
    /\ gp_waits = <<>>
    /\ mn_cmd = NoCmd
    /\ mn_filter = None
    /\ mn_build = None
    /\ mn_ret = Err

ParseVersesSpec ==
    /\ ps_pc = "call"
    /\ ps_res' = parse_verses_spec(ps_spec)
    /\ ps_pc' = "ret"
    /\ UNCHANGED <<ps_spec, dir, hzVars, dlVars, fcVars, gpVars, mnVars>>

NextParse == ParseVersesSpec

SpecParse == InitParse /\ [][NextParse]_vars

\* SpecHifz begins with a directory left by earlier downloads
InitHifz ==
    /\ dir \in InitialDirs
    /\ hz_calls = 0
    /\ hz_args = NoArgs
    /\ hz_list = Err
    /\ hz_silence = None
    /\ hz_ffmpeg = 0
    /\ hz_ret = Err
    /\ ps_pc = "ret"
    /\ ps_spec = <<>>
    /\ ps_res = Err
    /\ dl_pc = "idle"
    /\ dl_args = [force |-> FALSE, only_verses |-> None]
    /\ dl_before = <<>>
    /\ dl_verses = Err
    /\ dl_idx = 1
    /\ dl_done = 0
    /\ dl_log = <<>>
    /\ dl_status = 0
    /\ fc_page = 1
    /\ fc_out = <<>>
    /\ fc_queries = <<>>
    /\ fc_pages = <<>>
    /\ gp_tries = 0
    /\ gp_sleep = 0
    /\ gp_status = 0
    /\ gp_sends = 0
    /\ gp_waits = <<>>
    /\ mn_cmd = NoCmd
    /\ mn_filter = None
    /\ mn_build = None
    /\ mn_ret = Err

\* one call of build_ayah_playlist(out_root, _chapter, verses, repeat, gap_ms)
BuildAyahPlaylist ==
    /\ hz_calls < MaxBuilds
    /\ \E verses \in VersesArgs, repeat \in 0..MaxRepeat, gap_ms \in GapArgs :
       \* the outcome of read_dir, drawn where the call uses it
       \E read_dir_ok \in IF verses = None THEN BOOLEAN ELSE {TRUE} :
       \E list \in {SelectList(dir, verses, read_dir_ok)} :
        /\ hz_calls' = hz_calls + 1
        /\ hz_args' = [verses |-> verses, repeat |-> repeat, gap_ms |-> gap_ms]
        /\ hz_list' = list
        /\ IF ~list.ok
           THEN \* the `?` of the selection returns the error
                /\ dir' = dir
                /\ hz_silence' = None
                /\ hz_ffmpeg' = 0
                /\ hz_ret' = Err
           ELSE \* the outcome of ffmpeg, drawn where the call runs it
                \E ffmpeg_ok \in IF gap_ms # 0 /\ ~Exists(dir, SilenceName(gap_ms))
                                 THEN BOOLEAN ELSE {TRUE} :
                \E ens \in {ensure_silence_mp3(dir, gap_ms, ffmpeg_ok)} :
                \E lines \in {ListLines(ens.dir, list.val, repeat, ens.path,
                                         gap_ms)} :
                    /\ dir' = WriteFile(WriteFile(ens.dir, M3uName,
                                                  <<M3uHeader>> \o lines),
                                        PointerName, M3uName)
                    /\ hz_silence' = ens.path
                    /\ hz_ffmpeg' = ens.runs
                    /\ hz_ret' = Ok(M3uName)
    /\ UNCHANGED <<psVars, dlVars, fcVars, gpVars, mnVars>>

NextHifz == BuildAyahPlaylist

SpecHifz == InitHifz /\ [][NextHifz]_vars

(***************************************************************************)
(* Specification Spec: run_filter, with the fetch_chapter and get_page     *)
(* calls it makes, one action per await                                    *)
(***************************************************************************)
\* Spec begins with an empty destination directory and no call made
Init ==
    /\ dir = <<>>
    /\ dl_pc = "idle"
    /\ dl_args = [force |-> FALSE, only_verses |-> None]
    /\ dl_before = <<>>
    /\ dl_verses = Err
    /\ dl_idx = 1
    /\ dl_done = 0
    /\ dl_log = <<>>
    /\ dl_status = 0
    /\ fc_page = 1
    /\ fc_out = <<>>
    /\ fc_queries = <<>>
    /\ fc_pages = <<>>
    /\ gp_tries = 0
    /\ gp_sleep = 0
    /\ gp_status = 0
    /\ gp_sends = 0
    /\ gp_waits = <<>>
    /\ mn_cmd = NoCmd
    /\ mn_filter = None
    /\ mn_build = None
    /\ mn_ret = Err
    /\ hz_calls = 0
    /\ hz_args = NoArgs
    /\ hz_list = Err
    /\ hz_silence = None
    /\ hz_ffmpeg = 0
    /\ hz_ret = Err
    /\ ps_pc = "ret"
    /\ ps_spec = <<>>
    /\ ps_res = Err

\* the verse the for loop of run_filter is at
CurrentVerse == dl_verses.val[dl_idx]

CurrentAyah == CurrentVerse.verse_number

\* fetch_chapter returned r to run_filter:
\*   let verses = fetch_chapter(..).await.with_context(..)?;
FetchReturns(r) ==
    /\ dl_verses' = r
    /\ dl_pc' = IF r.ok THEN "next_verse" ELSE "err"
    /\ UNCHANGED <<dir, dl_args, dl_before, dl_idx, dl_done, dl_log, dl_status>>

\* run_filter is called: create_dir_all, then fetch_chapter sends the
\* request for page 1
RunFilterBegin ==
    /\ dl_pc \in {"idle", "ok", "err"}
    /\ \E args \in RunFilterArgs, create_dir_ok \in BOOLEAN :
        /\ dl_args' = args
        /\ dl_pc' = IF create_dir_ok THEN "send_page" ELSE "err"
        /\ fc_queries' = IF create_dir_ok THEN <<ChapterQuery(1)>> ELSE <<>>
        /\ gp_sends' = IF create_dir_ok THEN 1 ELSE 0
    /\ dl_before' = dir
    /\ dl_verses' = Err
    /\ dl_idx' = 1
    /\ dl_done' = 0
    /\ dl_log' = <<>>
    /\ dl_status' = 0
    /\ fc_page' = 1
    /\ fc_out' = <<>>
    /\ fc_pages' = <<>>
    /\ gp_tries' = 0
    /\ gp_sleep' = 0
    /\ gp_status' = 0
    /\ gp_waits' = <<>>
    /\ UNCHANGED <<dir, psVars, hzVars, mnVars>>

\* get_page: send() fails (no response)
PageSendFails ==
    /\ dl_pc = "send_page"
    /\ gp_status' = 0
    /\ FetchReturns(OnPageError(fc_out))
    /\ UNCHANGED <<fcVars, gp_tries, gp_sleep, gp_sends, gp_waits, psVars, hzVars,
                   mnVars>>

\* get_page: a 429 with retries left: the sleep begins
PageRateLimited ==
    /\ dl_pc = "send_page"
    /\ \E status \in Statuses :
        /\ RetryAllowed(status, gp_tries)
        /\ gp_status' = status
    /\ gp_sleep' = BackoffMs(gp_tries)
    /\ dl_pc' = "backoff"
    /\ UNCHANGED <<dir, dl_args, dl_before, dl_verses, dl_idx,
                   dl_done, dl_log, dl_status, fcVars, gp_tries, gp_sends,
                   gp_waits,
                   psVars, hzVars, mnVars>>

\* get_page: the sleep ends; tries += 1; continue: the request is sent again
BackoffWake ==
    /\ dl_pc = "backoff"
    /\ gp_waits' = Append(gp_waits, gp_sleep)
    /\ gp_sleep' = 0
    /\ gp_tries' = gp_tries + 1
    /\ gp_sends' = gp_sends + 1
    /\ dl_pc' = "send_page"
    /\ UNCHANGED <<dir, dl_args, dl_before, dl_verses, dl_idx,
                   dl_done, dl_log, dl_status, fcVars, gp_status, psVars,
                   hzVars, mnVars>>

\* get_page: an error status that is not retried: error_for_status()?
PageHttpError ==
    /\ dl_pc = "send_page"
    /\ \E status \in Statuses :
        /\ ~RetryAllowed(status, gp_tries)
        /\ IsErrorStatus(status)
        /\ gp_status' = status
    /\ FetchReturns(OnPageError(fc_out))
    /\ UNCHANGED <<fcVars, gp_tries, gp_sleep, gp_sends, gp_waits, psVars, hzVars,
                   mnVars>>

\* get_page: a success status whose body does not decode
PageDecodeFails ==
    /\ dl_pc = "send_page"
    /\ \E status \in Statuses :
        /\ ~RetryAllowed(status, gp_tries)
        /\ ~IsErrorStatus(status)
        /\ gp_status' = status
    /\ FetchReturns(OnPageError(fc_out))
    /\ UNCHANGED <<fcVars, gp_tries, gp_sleep, gp_sends, gp_waits, psVars, hzVars,
                   mnVars>>

\* get_page returns a decoded page; fetch_chapter collects it and either
\* returns or sends the request for the next page.  (A page naming a next
\* page arrives only while the model's MaxPages allows another request.)
PageDecoded ==
    /\ dl_pc = "send_page"
    /\ \E status \in Statuses, parsed \in ChapterResponses(fc_page) :
        /\ ~RetryAllowed(status, gp_tries)
        /\ ~IsErrorStatus(status)
        /\ (parsed.verses # <<>> /\ NextPage(parsed) # None)
               => Len(fc_queries) < MaxPages
        /\ \E st \in {FetchStep(fc_out, parsed)} :
            /\ fc_pages' = Append(fc_pages, parsed)
            /\ fc_out' = st.out
            /\ IF st.done
               THEN /\ FetchReturns(Ok(st.out))
                    /\ gp_status' = status
                    /\ UNCHANGED <<fc_page, fc_queries, gp_tries, gp_sleep,
                                   gp_sends, gp_waits>>
               ELSE /\ fc_page' = st.page
                    /\ fc_queries' = Append(fc_queries, ChapterQuery(st.page))
                    /\ gp_tries' = 0
                    /\ gp_sleep' = 0
                    /\ gp_status' = 0
                    /\ gp_sends' = 1
                    /\ gp_waits' = <<>>
                    /\ UNCHANGED <<dir, dlVars>>
    /\ UNCHANGED <<psVars, hzVars, mnVars>>

\* the head of the for loop: the end of the list, a verse that is not
\* wanted, a verse to download or a verse whose download is skipped.
\* (fetch_chapter has returned: its locals and the record of its requests
\* are gone.)
NextVerse ==
    /\ dl_pc = "next_verse"
    /\ IF dl_idx > Len(dl_verses.val)
       THEN /\ dl_pc' = "ok"
            /\ UNCHANGED <<dl_idx, dl_log>>
       ELSE IF ~Wanted(dl_args.only_verses, CurrentVerse)
       THEN /\ dl_idx' = dl_idx + 1
            /\ UNCHANGED <<dl_pc, dl_log>>
       ELSE IF NeedsDownload(dl_args.force, dir, CurrentAyah)
       THEN /\ dl_pc' = "send_audio"
            /\ dl_log' = Append(dl_log, <<"get", CurrentAyah>>)
            /\ UNCHANGED dl_idx
       ELSE /\ dl_pc' = "sidecar"
            /\ dl_log' = Append(dl_log, <<"skip", CurrentAyah>>)
            /\ UNCHANGED dl_idx
    /\ fc_page' = 1
    /\ fc_out' = <<>>
    /\ fc_queries' = <<>>
    /\ fc_pages' = <<>>
    /\ gp_tries' = 0
    /\ gp_sleep' = 0
    /\ gp_status' = 0
    /\ gp_sends' = 0
    /\ gp_waits' = <<>>
    /\ dl_status' = 0
    /\ UNCHANGED <<dir, dl_args, dl_before, dl_verses, dl_done, psVars, hzVars,
                   mnVars>>

\* (mutation of AudioRequestFails: the destination file is created before
\* the status is looked at)
AudioRequestFails_CreatesFirst ==
    /\ dl_pc = "send_audio"
    /\ \/ dl_status' = 0 /\ UNCHANGED dir
       \/ \E status \in Statuses :
              /\ IsErrorStatus(status)
              /\ dl_status' = status
              /\ dir' = WriteFile(dir, Mp3Name(CurrentAyah), <<>>)
    /\ dl_pc' = "err"
    /\ UNCHANGED <<dl_args, dl_before, dl_verses, dl_idx,
                   dl_done, dl_log, fcVars, gpVars, psVars, hzVars, mnVars>>

\* (mutation of AudioRequestFails: the failure is not propagated and the
\* loop goes on with the sidecar)
AudioRequestFails_Continues ==
    /\ dl_pc = "send_audio"
    /\ \/ dl_status' = 0
       \/ \E status \in Statuses :
              IsErrorStatus(status) /\ dl_status' = status
    /\ dl_pc' = "sidecar"
    /\ UNCHANGED <<dir, dl_args, dl_before, dl_verses, dl_idx,
                   dl_done, dl_log, fcVars, gpVars, psVars, hzVars, mnVars>>

\* client.get(&url).send().await? fails (no response), or the response has
\* an error status and error_for_status() fails.  No status is retried here.
AudioRequestFails ==
    /\ dl_pc = "send_audio"
    /\ \/ dl_status' = 0
       \/ \E status \in Statuses :
              IsErrorStatus(status) /\ dl_status' = status
    /\ dl_pc' = "err"
    /\ UNCHANGED <<dir, dl_args, dl_before, dl_verses, dl_idx,
                   dl_done, dl_log, fcVars, gpVars, psVars, hzVars, mnVars>>

\* the audio request is answered with a success status
AudioRequestOk ==
    /\ dl_pc = "send_audio"
    /\ \E status \in Statuses :
          ~IsErrorStatus(status) /\ dl_status' = status
    /\ dl_pc' = "create"
    /\ UNCHANGED <<dir, dl_args, dl_before, dl_verses, dl_idx,
                   dl_done, dl_log, fcVars, gpVars, psVars, hzVars, mnVars>>

\* fs::File::create(&mp3).await?: the file is created or truncated, or not
CreateFile ==
    /\ dl_pc = "create"
    /\ \/ /\ dir' = WriteFile(dir, Mp3Name(CurrentAyah), <<>>)
          /\ dl_pc' = "stream"
       \/ /\ dl_pc' = "err"
          /\ UNCHANGED dir
    /\ UNCHANGED <<dl_args, dl_before, dl_verses, dl_idx, dl_done,
                   dl_log, dl_status, fcVars, gpVars, psVars, hzVars, mnVars>>

\* s.next().await yields a chunk: write_all appends it, or the chunk or the
\* write is an error
StreamChunk ==
    /\ dl_pc = "stream"
    /\ Len(dir[Mp3Name(CurrentAyah)]) < NChunks
    /\ \/ /\ dir' = WriteFile(dir, Mp3Name(CurrentAyah),
                              Append(dir[Mp3Name(CurrentAyah)],
                                     CompleteAudio[Len(dir[Mp3Name(CurrentAyah)]) + 1]))
          /\ UNCHANGED dl_pc
       \/ /\ dl_pc' = "err"
          /\ UNCHANGED dir
    /\ UNCHANGED <<dl_args, dl_before, dl_verses, dl_idx, dl_done,
                   dl_log, dl_status, fcVars, gpVars, psVars, hzVars, mnVars>>

\* s.next().await yields None: the body is complete
StreamEnd ==
    /\ dl_pc = "stream"
    /\ Len(dir[Mp3Name(CurrentAyah)]) = NChunks
    /\ dl_pc' = "sidecar"
    /\ UNCHANGED <<dir, dl_args, dl_before, dl_verses, dl_idx,
                   dl_done, dl_log, dl_status, fcVars, gpVars, psVars, hzVars,
                   mnVars>>

\* tokio::fs::write(&seg, data).await?; done += 1
WriteSidecar ==
    /\ dl_pc = "sidecar"
    /\ dir' = WriteFile(dir, SegName(CurrentAyah), SegmentPairs(CurrentVerse))
    /\ dl_done' = dl_done + 1
    /\ dl_idx' = dl_idx + 1
    /\ dl_log' = Append(dl_log, <<"seg", CurrentAyah>>)
    /\ dl_pc' = "next_verse"
    /\ UNCHANGED <<dl_args, dl_before, dl_verses, dl_status, fcVars, gpVars,
                   psVars, hzVars, mnVars>>

\* tokio::fs::write(&seg, data).await? fails: before the file is opened, or
\* after it was created or truncated
WriteSidecarFails ==
    /\ dl_pc = "sidecar"
    /\ \/ UNCHANGED dir
       \/ dir' = WriteFile(dir, SegName(CurrentAyah), <<>>)
    /\ dl_pc' = "err"
    /\ UNCHANGED <<dl_args, dl_before, dl_verses, dl_idx, dl_done,
                   dl_log, dl_status, fcVars, gpVars, psVars, hzVars, mnVars>>

Next ==
    \/ RunFilterBegin
    \/ PageSendFails
    \/ PageRateLimited
    \/ BackoffWake
    \/ PageHttpError
    \/ PageDecodeFails
    \/ PageDecoded
    \/ NextVerse
    \/ AudioRequestFails
    \/ AudioRequestOk
    \/ CreateFile
    \/ StreamChunk
    \/ StreamEnd
    \/ WriteSidecar
    \/ WriteSidecarFails

Spec == Init /\ [][Next]_vars

(***************************************************************************)
(* Specification SpecMain: one run of main, with the command line, the     *)
(* environment and the outcome of every call that can fail drawn where     *)
(* the run uses them.  What the run leaves is the call it made of          *)
(* run_filter and of build_ayah_playlist, each with its directory.         *)
(***************************************************************************)
InitMain ==
    /\ mn_cmd = NoCmd
    /\ mn_filter = None
    /\ mn_build = None
    /\ mn_ret = Err
    /\ dir = <<>>
    /\ ps_pc = "ret"
    /\ ps_spec = <<>>
    /\ ps_res = Err
    /\ hz_calls = 0
    /\ hz_args = NoArgs
    /\ hz_list = Err
    /\ hz_silence = None
    /\ hz_ffmpeg = 0
    /\ hz_ret = Err
    /\ dl_pc = "idle"
    /\ dl_args = [force |-> FALSE, only_verses |-> None]
    /\ dl_before = <<>>
    /\ dl_verses = Err
    /\ dl_idx = 1
    /\ dl_done = 0
    /\ dl_log = <<>>
    /\ dl_status = 0
    /\ fc_page = 1
    /\ fc_out = <<>>
    /\ fc_queries = <<>>
    /\ fc_pages = <<>>
    /\ gp_tries = 0
    /\ gp_sleep = 0
    /\ gp_status = 0
    /\ gp_sends = 0
    /\ gp_waits = <<>>

\* hifzr download --reciter .. --chapter .. [--out ..] [--force]
MainDownload ==
    /\ mn_cmd = NoCmd
    /\ \E reciter \in ReciterArgs, chapter \in ChapterArgs, out \in OutArgs,
          force \in BOOLEAN, home \in HomeEnv :
       \E chapters \in {Ok(Chapters), Err}, reciters \in {Ok(Reciters), Err},
          filter_ok \in BOOLEAN :
       \E res \in {CmdDownload([reciter |-> reciter, chapter |-> chapter,
                                out |-> out, force |-> force,
                                home |-> home],
                               chapters, reciters, filter_ok)} :
        /\ mn_cmd' = [cmd |-> "download", chapter |-> chapter,
                      reciter |-> Some(reciter), out |-> out, home |-> home,
                      auto_download |-> FALSE]
        /\ mn_filter' = res.filter
        /\ mn_build' = res.build
        /\ mn_ret' = res.ret
    /\ UNCHANGED <<dir, psVars, hzVars, dlVars, fcVars, gpVars>>

\* hifzr hifz --chapter .. [--verses ..] [--auto-download] [--reciter ..]
\*            [--force] [--repeat ..] [--gap-ms ..] [--out ..]
MainHifz ==
    /\ mn_cmd = NoCmd
    /\ \E chapter \in ChapterArgs, verses \in MainVersesArgs,
          auto_download \in BOOLEAN,
          reciter \in {None} \cup {Some(r) : r \in ReciterArgs},
          force \in BOOLEAN, repeat \in MainRepeatArgs,
          gap_ms \in MainGapArgs, out \in OutArgs, home \in HomeEnv :
       \E chapters \in {Ok(Chapters), Err}, reciters \in {Ok(Reciters), Err},
          filter_ok \in BOOLEAN, build_ok \in BOOLEAN :
       \E res \in {CmdHifz([chapter |-> chapter, verses |-> verses,
                            auto_download |-> auto_download,
                            reciter |-> reciter, force |-> force,
                            repeat |-> repeat, gap_ms |-> gap_ms,
                            out |-> out, home |-> home],
                           chapters, reciters, filter_ok, build_ok)} :
        /\ mn_cmd' = [cmd |-> "hifz", chapter |-> chapter,
                      reciter |-> reciter, out |-> out, home |-> home,
                      auto_download |-> auto_download]
        /\ mn_filter' = res.filter
        /\ mn_build' = res.build
        /\ mn_ret' = res.ret
    /\ UNCHANGED <<dir, psVars, hzVars, dlVars, fcVars, gpVars>>

NextMain == MainDownload \/ MainHifz

SpecMain == InitMain /\ [][NextMain]_vars

(***************************************************************************)
(* The grammar of a verse specification, stated on the text itself         *)
(***************************************************************************)
\* the comma-free stretches of s between commas (or the ends), as <<from, to>>
FieldSpans(s) ==
    {sp \in (1..(Len(s) + 1)) \X (0..Len(s)) :
        /\ sp[1] <= sp[2] + 1
        /\ \A k \in sp[1]..sp[2] : s[k] # ","
        /\ sp[1] = 1 \/ s[sp[1] - 1] = ","
        /\ sp[2] = Len(s) \/ s[sp[2] + 1] = ","}

\* the stretch without the white space around it
TokenOf(s, sp) ==
    LET inked == {k \in sp[1]..sp[2] : s[k] # " "}
    IN  IF inked = {} THEN <<>>
        ELSE SubSeq(s, CHOOSE a \in inked : \A k \in inked : a <= k,
                       CHOOSE b \in inked : \A k \in inked : k <= b)

\* the non-empty tokens of s
Tokens(s) == {TokenOf(s, sp) : sp \in FieldSpans(s)} \ {<<>>}

IsNumberToken(t) == t # <<>> /\ \A k \in 1..Len(t) : IsDigit(t[k])

IsRangeToken(t) ==
    \E k \in 1..Len(t) :
        /\ t[k] = "-"
        /\ IsNumberToken(SubSeq(t, 1, k - 1))
        /\ IsNumberToken(SubSeq(t, k + 1, Len(t)))

RangeLow(t) ==
    DigitsValue(SubSeq(t, 1, (CHOOSE k \in 1..Len(t) : t[k] = "-") - 1))

RangeHigh(t) ==
    DigitsValue(SubSeq(t, (CHOOSE k \in 1..Len(t) : t[k] = "-") + 1, Len(t)))

IsValidToken(t) ==
    IsNumberToken(t) \/ (IsRangeToken(t) /\ RangeLow(t) <= RangeHigh(t))

\* the numbers a valid token names
NamedBy(t) ==
    IF IsNumberToken(t) THEN {DigitsValue(t)} ELSE RangeLow(t)..RangeHigh(t)

StrictlyAscending(q) == \A i \in 1..(Len(q) - 1) : q[i] < q[i + 1]

Elements(q) == {q[i] : i \in 1..Len(q)}

\* C8: parse_verses_spec on a specification whose non-empty, trimmed tokens
\* are all integers or low-high ranges with low <= high returns the strictly
\* ascending (sorted, duplicate-free) list of exactly the numbers its tokens
\* name, "1-3,5,7-8" giving [1,2,3,5,7,8]; if some token is a range with
\* low > high (as in "5-2") the parse fails and returns no list.
C8_ParseSortedUniqueExact ==
    ps_pc = "ret" =>
        /\ (\A t \in Tokens(ps_spec) : IsValidToken(t)) =>
                /\ ps_res.ok
                /\ StrictlyAscending(ps_res.val)
                /\ Elements(ps_res.val) =
                       UNION {NamedBy(t) : t \in Tokens(ps_spec)}
        /\ (\E t \in Tokens(ps_spec) :
                IsRangeToken(t) /\ RangeLow(t) > RangeHigh(t)) =>
                ps_res = Err
        /\ ps_spec = ExampleSpecValid => ps_res = Ok(<<1, 2, 3, 5, 7, 8>>)
        /\ ps_spec = ExampleSpecBad => ps_res = Err

\* C8 witness: "1-3,5,7-8" has been parsed into [1,2,3,5,7,8]
C8_Witness ==
    /\ ps_pc = "ret"
    /\ ps_spec = ExampleSpecValid
    /\ ps_res = Ok(<<1, 2, 3, 5, 7, 8>>)

(***************************************************************************)
(* Properties of build_ayah_playlist                                       *)
(***************************************************************************)
\* the entries of the playlist file: its lines after the header
PlaylistEntries == Tail(dir[M3uName])

IsSilenceRef(line) ==
    Len(line) >= 9 /\ SubSeq(line, 1, 9) = SubSeq(SilenceName(0), 1, 9)

\* the positions of q that hold x
Positions(q, x) == {i \in 1..Len(q) : q[i] = x}

\* the verse a playlist entry refers to, among the verses of `list`
IsFileRefOf(line, list) == \E n \in Elements(list) : line = Mp3Name(n)

VerseOfRef(line, list) == CHOOSE n \in Elements(list) : line = Mp3Name(n)

\* C6: after a successful build, the entries are references to the audio
\* files of the selected verses that exist and to the silence clip only;
\* each existing selected verse has exactly `repeat` references, in ascending
\* verse order; and when gap_ms > 500 and a clip was obtained every file
\* reference is followed by exactly one silence reference, so [1,2] with
\* repeat 2 and gap 1000 gives 1, silence, 1, silence, 2, silence, 2, silence.
C6_PlaylistOrder ==
    hz_ret.ok =>
        LET e == PlaylistEntries
            list == hz_list.val
        IN  /\ StrictlyAscending(list)
            /\ \A i \in 1..Len(e) : IsFileRefOf(e[i], list) \/ IsSilenceRef(e[i])
            /\ \A n \in Elements(list) :
                   Cardinality(Positions(e, Mp3Name(n))) =
                       IF Exists(dir, Mp3Name(n)) THEN hz_args.repeat ELSE 0
            /\ \A i, j \in 1..Len(e) :
                   (i < j /\ IsFileRefOf(e[i], list) /\ IsFileRefOf(e[j], list))
                       => VerseOfRef(e[i], list) <= VerseOfRef(e[j], list)
            /\ (hz_args.gap_ms > 500 /\ hz_silence # None) =>
                   \A i \in 1..Len(e) :
                       IsFileRefOf(e[i], list) =>
                           /\ i + 1 <= Len(e)
                           /\ e[i + 1] = SilenceName(hz_args.gap_ms)
                           /\ i + 2 <= Len(e) => ~IsSilenceRef(e[i + 2])
            /\ ( /\ list = <<1, 2>>
                 /\ Exists(dir, Mp3Name(1)) /\ Exists(dir, Mp3Name(2))
                 /\ hz_args.repeat = 2 /\ hz_args.gap_ms = 1000
                 /\ hz_silence # None ) =>
                   e = <<Mp3Name(1), SilenceName(1000), Mp3Name(1),
                         SilenceName(1000), Mp3Name(2), SilenceName(1000),
                         Mp3Name(2), SilenceName(1000)>>

\* C6 witness: verses [1,2] present, repeat 2, gap 1000, clip obtained
C6_Witness ==
    /\ hz_ret.ok
    /\ hz_list.val = <<1, 2>>
    /\ Exists(dir, Mp3Name(1)) /\ Exists(dir, Mp3Name(2))
    /\ hz_args.repeat = 2 /\ hz_args.gap_ms = 1000
    /\ hz_silence # None
    /\ Len(PlaylistEntries) = 8

\* C7: after a successful build with gap_ms <= 500 (0, 200 or exactly 500)
\* no entry of the playlist is a silence reference, whatever the selection
\* and repeat count; a silence reference implies gap_ms > 500.
C7_NoSilenceAtOrBelowThreshold ==
    hz_ret.ok =>
        /\ hz_args.gap_ms <= 500 =>
               \A i \in 1..Len(PlaylistEntries) :
                   ~IsSilenceRef(PlaylistEntries[i])
        /\ (\E i \in 1..Len(PlaylistEntries) :
                IsSilenceRef(PlaylistEntries[i])) => hz_args.gap_ms > 500

\* C7 witness: gap_ms is exactly 500, the clip exists, files were listed
C7_Witness ==
    /\ hz_ret.ok
    /\ hz_args.gap_ms = 500
    /\ hz_args.repeat = 2
    /\ hz_silence # None
    /\ Len(PlaylistEntries) = 4

\* the selected verses whose audio file exists
PresentOnly(list) == SelectSeq(list, LAMBDA n : Exists(dir, Mp3Name(n)))

\* C9: a selection that parses (or a directory that scans) never fails the
\* build because an audio file is missing; a selected verse whose NNN.mp3 is
\* missing has no entry, and the playlist is the one the same call produces
\* when the missing verses are not selected at all.
C9_MissingVerseSkipped ==
    /\ hz_list.ok /\ hz_calls > 0 => hz_ret.ok
    /\ hz_ret.ok =>
        /\ \A n \in Elements(hz_list.val) :
               ~Exists(dir, Mp3Name(n)) => Positions(PlaylistEntries, Mp3Name(n)) = {}
        /\ PlaylistEntries =
               ListLines(dir, PresentOnly(hz_list.val), hz_args.repeat,
                         hz_silence, hz_args.gap_ms)

\* C9 witness: [1,2] selected, 002.mp3 missing, only verse 1 is listed
C9_Witness ==
    /\ hz_ret.ok
    /\ hz_args.verses # None
    /\ hz_list.val = <<1, 2>>
    /\ Exists(dir, Mp3Name(1)) /\ ~Exists(dir, Mp3Name(2))
    /\ hz_args.repeat = 2 /\ hz_args.gap_ms = 1000 /\ hz_silence # None
    /\ PlaylistEntries = <<Mp3Name(1), SilenceName(1000),
                           Mp3Name(1), SilenceName(1000)>>

\* the numbers named by the files of d called <digits>.mp3
NumericMp3Numbers(d) ==
    {DigitsValue(SubSeq(name, 1, Len(name) - 4)) :
        name \in {f \in DOMAIN d :
                     /\ Len(f) > 4
                     /\ SubSeq(f, Len(f) - 3, Len(f)) = DotMp3
                     /\ IsNumberToken(SubSeq(f, 1, Len(f) - 4))}}

\* C10: a build without explicit selection that scans the directory uses as
\* its list the strictly ascending list of the numbers named by the
\* <digits>.mp3 files the directory holds when the call begins (001, 003 and
\* 010 give [1,3,10]); the silence clips, the playlist, the pointer file and
\* the sidecars add nothing.
C10_AutoDetect ==
    [][ (hz_calls' = hz_calls + 1 /\ hz_args'.verses = None /\ hz_list'.ok) =>
            /\ StrictlyAscending(hz_list'.val)
            /\ Elements(hz_list'.val) = NumericMp3Numbers(dir)
            /\ (\A v \in InitialVerses :
                    Exists(dir, Mp3Name(v)) <=> v \in {1, 3, 10})
                /\ ~Exists(dir, UnpaddedName)
                    => hz_list'.val = <<1, 3, 10>> ]_vars

\* C10 witness: a second build, over a directory that already holds a
\* playlist, a pointer file, sidecars and a silence clip, detected [1,3,10]
C10_Witness ==
    /\ hz_calls = 2
    /\ hz_args.verses = None
    /\ hz_list = Ok(<<1, 3, 10>>)
    /\ hz_ffmpeg = 0 /\ hz_silence # None
    /\ Exists(dir, SegName(1)) /\ Exists(dir, PointerName)

(***************************************************************************)
(* Properties of get_page and fetch_chapter                                *)
(***************************************************************************)
\* C1: within one get_page call the Nth sleep lasts 250 * 2^(N-1) ms, there
\* are at most 5 of them, one request is sent first and one after each sleep;
\* a 429 received while fewer than 5 sleeps were made starts the next sleep,
\* whose only continuation is the same request sent again; a 429 received
\* after the 5th retry ends the call with an error, with no sleep and no
\* request more.
C1_BackoffSchedule ==
    /\ [](/\ Len(gp_waits) <= 5
          /\ \A i \in 1..Len(gp_waits) : gp_waits[i] = 250 * (2 ^ (i - 1))
          /\ dl_pc \in {"send_page", "backoff"} => gp_sends = Len(gp_waits) + 1
          /\ dl_pc = "backoff" =>
                 /\ gp_status = 429
                 /\ Len(gp_waits) < 5
                 /\ gp_sleep = 250 * (2 ^ Len(gp_waits)))
    /\ [][ (dl_pc = "send_page" /\ gp_status' = 429) =>
               IF Len(gp_waits) < 5
               THEN dl_pc' = "backoff" /\ gp_sends' = gp_sends
               ELSE /\ dl_pc' = "err"
                    /\ dl_verses' = Err
                    /\ gp_waits' = gp_waits
                    /\ gp_sends' = gp_sends
                    /\ gp_sends = 6 ]_vars
    /\ [][ dl_pc = "backoff" =>
               /\ dl_pc' = "send_page"
               /\ fc_queries' = fc_queries
               /\ gp_sends' = gp_sends + 1
               /\ gp_waits' = Append(gp_waits, gp_sleep) ]_vars

\* C1 witness: the call failed on the 429 that answered the 5th retry
C1_Witness ==
    /\ dl_pc = "err"
    /\ gp_status = 429
    /\ gp_waits = <<250, 500, 1000, 2000, 4000>>
    /\ gp_sends = 6

\* a page that ends the collection: no verses, or no next page (a null
\* next_page, or no pagination at all)
HasNextPage(pg) ==
    pg.pagination # None /\ pg.pagination[1].next_page # None

StopsCollection(pg) == pg.verses = <<>> \/ ~HasNextPage(pg)

RECURSIVE ConcatVerses(_)
ConcatVerses(pages) ==
    IF pages = <<>> THEN <<>>
    ELSE pages[1].verses \o ConcatVerses(Tail(pages))

\* C2: fetch_chapter asks for page 1 first and for 50 verses per page always;
\* a decoded page that does not stop the collection is followed by the
\* request for the page it names; a decoded page that stops it (no verses,
\* or verses but no next page) is the last one requested, and fetch_chapter
\* then returns the concatenation of the verse lists of all decoded pages.
C2_Pagination ==
    fc_queries # <<>> =>
        /\ fc_queries[1].page = Some(1)
        /\ \A i \in 1..Len(fc_queries) : fc_queries[i].per_page = Some(50)
        /\ Len(fc_pages) <= Len(fc_queries)
        /\ \A i \in 1..Len(fc_pages) :
               IF StopsCollection(fc_pages[i])
               THEN /\ i = Len(fc_queries)
                    /\ dl_verses = Ok(ConcatVerses(fc_pages))
               ELSE /\ i < Len(fc_queries)
                    /\ fc_queries[i + 1].page = fc_pages[i].pagination[1].next_page
        /\ dl_verses.ok => /\ Len(fc_pages) = Len(fc_queries)
                           /\ StopsCollection(fc_pages[Len(fc_pages)])

\* C2 witness: two pages were fetched; the second has a verse and no
\* pagination, and its verse ends the returned list
C2_Witness ==
    /\ dl_verses.ok
    /\ Len(fc_pages) = 2
    /\ fc_pages[2].verses # <<>>
    /\ fc_pages[2].pagination = None
    /\ Len(dl_verses.val) = Len(fc_pages[1].verses) + Len(fc_pages[2].verses)

\* C3: a get_page call that ends without a decoded page makes fetch_chapter
\* return the error and no list, also when earlier pages were collected;
\* run_filter then ends with the error, having requested no audio and
\* written no file: the directory is as it was when the call began.
C3_FetchAllOrNothing ==
    /\ [][ ( /\ dl_pc = "send_page"
             /\ dl_pc' \notin {"send_page", "backoff"}
             /\ fc_pages' = fc_pages ) =>
               /\ dl_verses' = Err
               /\ dl_pc' = "err"
               /\ dir' = dir ]_vars
    /\ []( (dl_pc \in {"send_page", "backoff"} \/ (dl_pc = "err" /\ ~dl_verses.ok))
              => dir = dl_before /\ dl_log = <<>> /\ dl_done = 0 )

\* C3 witness: the fetch failed after a page with verses had been collected
C3_Witness ==
    /\ dl_pc = "err"
    /\ dl_verses = Err
    /\ Len(fc_pages) = 1
    /\ fc_out # <<>>
    /\ Len(fc_queries) = 2

(***************************************************************************)
(* Properties of run_filter                                                *)
(***************************************************************************)
PassesFilter(v) ==
    dl_args.only_verses = None \/ v.verse_number \in dl_args.only_verses[1]

AyahsOf(list) == {list[i].verse_number : i \in 1..Len(list)}

HasEvent(kind, n) == \E k \in 1..Len(dl_log) : dl_log[k] = <<kind, n>>

\* C4: when the loop reaches a verse that passes the filter, the audio is
\* requested if and only if force is set or NNN.mp3 does not exist, and
\* otherwise the download is skipped; an audio file changes only while it is
\* being downloaded, so a skipped verse's file is as it was; a run without
\* force over a directory that holds every wanted audio file ends without a
\* single request.
C4_SkipIfExists ==
    /\ [][ ( /\ dl_pc = "next_verse"
             /\ dl_idx <= Len(dl_verses.val)
             /\ PassesFilter(dl_verses.val[dl_idx]) ) =>
               LET n == dl_verses.val[dl_idx].verse_number
               IN  IF dl_args.force \/ Mp3Name(n) \notin DOMAIN dir
                   THEN /\ dl_pc' = "send_audio"
                        /\ dl_log' = Append(dl_log, <<"get", n>>)
                   ELSE /\ dl_pc' = "sidecar"
                        /\ dl_log' = Append(dl_log, <<"skip", n>>)
                        /\ dir' = dir ]_vars
    /\ [][ \A n \in AyahsOf(ChapterVerses) :
               ( \/ Exists(dir, Mp3Name(n)) # Exists(dir', Mp3Name(n))
                 \/ /\ Exists(dir, Mp3Name(n))
                    /\ dir'[Mp3Name(n)] # dir[Mp3Name(n)] ) =>
                   /\ dl_pc \in {"create", "stream"}
                   /\ n = dl_verses.val[dl_idx].verse_number
                   /\ HasEvent("get", n) ]_vars
    /\ []( \A n \in AyahsOf(ChapterVerses) :
               (HasEvent("skip", n) /\ ~HasEvent("get", n)) =>
                   /\ Exists(dl_before, Mp3Name(n))
                   /\ dir[Mp3Name(n)] = dl_before[Mp3Name(n)] )
    /\ []( ( /\ dl_pc = "ok"
             /\ ~dl_args.force
             /\ \A i \in 1..Len(dl_verses.val) :
                    PassesFilter(dl_verses.val[i]) =>
                        Exists(dl_before, Mp3Name(dl_verses.val[i].verse_number)) )
              => \A n \in AyahsOf(ChapterVerses) : ~HasEvent("get", n) )

\* C4 witness: a run without force over a directory that held both audio
\* files ended having skipped both downloads
C4_Witness ==
    /\ dl_pc = "ok"
    /\ ~dl_args.force
    /\ dl_args.only_verses = None
    /\ HasEvent("skip", 1) /\ HasEvent("skip", 2)
    /\ ~HasEvent("get", 1) /\ ~HasEvent("get", 2)
    /\ dir[Mp3Name(1)] = CompleteAudio /\ dir[Mp3Name(2)] = CompleteAudio

\* the [start_ms, end_ms] pairs of the segments of v with end_ms > start_ms
ProperPairs(v) ==
    IF v.audio.segments = None THEN <<>>
    ELSE LET all == v.audio.segments[1]
             proper == SelectSeq(all, LAMBDA g : g.end_ms > g.start_ms)
         IN  [k \in 1..Len(proper) |-> <<proper[k].start_ms, proper[k].end_ms>>]

\* C5: the step that ends a verse's processing, after a skipped as after a
\* performed download, rewrites NNN.segments.json with exactly the pairs of
\* the verse's segments that have end_ms > start_ms, in their order (verse 1:
\* [100,100] and [300,200] dropped, [100,250] kept; no segment list: an empty
\* array); the loop leaves a wanted verse only through that step, so a run
\* that succeeds leaves every wanted verse's sidecar with those pairs.
C5_SidecarRewritten ==
    /\ [][ (dl_pc = "sidecar" /\ dl_pc' = "next_verse") =>
               LET v == dl_verses.val[dl_idx]
               IN  /\ Exists(dir', SegName(v.verse_number))
                   /\ dir'[SegName(v.verse_number)] = ProperPairs(v)
                   /\ v.verse_number = 1 =>
                          dir'[SegName(1)] = << <<100, 250>> >>
                   /\ v.audio.segments = None =>
                          dir'[SegName(v.verse_number)] = <<>>
                   /\ dl_log' = Append(dl_log, <<"seg", v.verse_number>>)
                   /\ dl_idx' = dl_idx + 1 ]_vars
    /\ [][ ( /\ dl_idx' = dl_idx + 1
             /\ dl_idx <= Len(dl_verses.val)
             /\ PassesFilter(dl_verses.val[dl_idx]) ) =>
               dl_pc = "sidecar" /\ dl_pc' = "next_verse" ]_vars
    /\ []( \A k \in 1..(Len(dl_log) - 1) :
               dl_log[k][1] \in {"get", "skip"} =>
                   dl_log[k + 1] = <<"seg", dl_log[k][2]>> )
    /\ []( dl_pc = "ok" =>
               \A i \in 1..Len(dl_verses.val) :
                   PassesFilter(dl_verses.val[i]) =>
                       /\ HasEvent("seg", dl_verses.val[i].verse_number)
                       /\ dir[SegName(dl_verses.val[i].verse_number)] =
                              ProperPairs(dl_verses.val[i]) )

\* C5 witness: verse 1's download was skipped, verse 2's was performed, and
\* both sidecars were written
C5_Witness ==
    /\ dl_pc = "ok"
    /\ dl_log = <<<<"skip", 1>>, <<"seg", 1>>, <<"get", 2>>, <<"seg", 2>>>>
    /\ dir[SegName(1)] = << <<100, 250>> >>
    /\ dir[SegName(2)] = <<>>

\* the positions before i of the verse list whose verse passes the filter
HandledBefore(i) ==
    {k \in 1..(i - 1) : PassesFilter(dl_verses.val[k])}

\* C11: in the loop of run_filter an audio request that is not answered with
\* a success status, a body chunk that is not written, a file that is not
\* created and a sidecar that is not written each end the call with an
\* error.  At that point the call has made one request or skip for the
\* failing verse and two events (request or skip, sidecar) for every wanted
\* verse before it, and nothing for a later verse, whose files are as the
\* call found them; the only step that follows is the start of a new call.
C11_AbortOnFirstFailure ==
    /\ [][ (dl_pc = "send_audio" /\ dl_status' # 200) =>
               dl_pc' = "err" /\ dir' = dir ]_vars
    /\ [][ (dl_pc = "create" /\ dl_pc' # "stream") => dl_pc' = "err" ]_vars
    /\ [][ ( /\ dl_pc = "stream"
             /\ dir' = dir
             /\ dl_pc' # "sidecar" ) => dl_pc' = "err" ]_vars
    /\ [][ (dl_pc = "sidecar" /\ dl_log' = dl_log) => dl_pc' = "err" ]_vars
    /\ []( (dl_pc = "err" /\ dl_verses.ok) =>
               /\ dl_idx <= Len(dl_verses.val)
               /\ Len(dl_log) = 2 * Cardinality(HandledBefore(dl_idx)) + 1
               /\ dl_log[Len(dl_log)][2] = dl_verses.val[dl_idx].verse_number
               /\ dl_log[Len(dl_log)][1] \in {"get", "skip"}
               /\ dl_done = Cardinality(HandledBefore(dl_idx))
               /\ \A n \in AyahsOf(ChapterVerses)
                         \ AyahsOf(SubSeq(dl_verses.val, 1, dl_idx)) :
                      \A name \in {Mp3Name(n), SegName(n)} :
                          /\ Exists(dir, name) = Exists(dl_before, name)
                          /\ Exists(dir, name) => dir[name] = dl_before[name] )
    /\ [][ dl_pc = "err" =>
               /\ dl_pc' \in {"send_page", "err"}
               /\ dl_log' = <<>>
               /\ dir' = dir ]_vars

\* C11 witness: the audio request of the first of two verses was answered
\* with status 500; the second verse has no file
C11_Witness ==
    /\ dl_pc = "err"
    /\ dl_verses.ok
    /\ Len(dl_verses.val) = 2
    /\ dl_idx = 1
    /\ dl_status = 500
    /\ dl_log = << <<"get", 1>> >>
    /\ ~Exists(dir, Mp3Name(2))
    /\ ~Exists(dir, SegName(2))

\* whether the file `name` is in d2 as it is in d1 (absent, or same content)
SameFile(d1, d2, name) ==
    /\ Exists(d1, name) = Exists(d2, name)
    /\ Exists(d1, name) => d1[name] = d2[name]

\* C12: when a run_filter call fails on some verse, the audio file and the
\* sidecar of every wanted verse handled before it are as the call found
\* them: nothing the call wrote for them is left in the directory.
C12_NoPartialResult ==
    (dl_pc = "err" /\ dl_verses.ok) =>
        \A i \in HandledBefore(dl_idx) :
            /\ SameFile(dl_before, dir, Mp3Name(dl_verses.val[i].verse_number))
            /\ SameFile(dl_before, dir, SegName(dl_verses.val[i].verse_number))

\* C13: a run_filter call made with force = false that succeeds, whatever
\* calls were aborted before it and wherever they failed, ends with a
\* completely downloaded NNN.mp3 for every verse that passes its filter.
\* (The directory starts empty and only run_filter writes audio files, so an
\* incomplete file found by a call was left by an aborted call.)
C13_ResumeCompletes ==
    (dl_pc = "ok" /\ ~dl_args.force) =>
        \A i \in 1..Len(dl_verses.val) :
            PassesFilter(dl_verses.val[i]) =>
                /\ Exists(dir, Mp3Name(dl_verses.val[i].verse_number))
                /\ dir[Mp3Name(dl_verses.val[i].verse_number)] = CompleteAudio

\* C14: get_page starts a sleep only on status 429, and sends a request
\* again only after such a sleep.  A step of get_page that neither decodes a
\* page nor receives a 429 (no response at all, another error status, or a
\* success status with a body that does not decode) ends the call with an
\* error at once: no sleep is started, no request is sent again and no other
\* page is asked for.
C14_OnlyRateLimitRetried ==
    /\ [][ dl_pc' = "backoff" => (dl_pc = "send_page" /\ gp_status' = 429) ]_vars
    /\ [][ (dl_pc \in {"send_page", "backoff"} /\ gp_sends' = gp_sends + 1) =>
               (dl_pc = "backoff" /\ gp_status = 429) ]_vars
    /\ [][ (dl_pc = "send_page" /\ fc_pages' = fc_pages /\ gp_status' # 429) =>
               /\ dl_pc' = "err"
               /\ dl_verses' = Err
               /\ gp_status' \in {0, 200, 500}
               /\ gp_sleep' = 0
               /\ gp_waits' = gp_waits
               /\ gp_sends' = gp_sends
               /\ fc_queries' = fc_queries ]_vars
    /\ []( (dl_pc = "err" /\ gp_sends > 0) =>
               /\ gp_sends = Len(gp_waits) + 1
               /\ gp_sleep = 0 )

\* C14 witness: after one 429 and its sleep the request was answered with
\* status 500, and the call failed without another sleep
C14_Witness ==
    /\ dl_pc = "err"
    /\ gp_status = 500
    /\ gp_waits = <<250>>
    /\ gp_sends = 2
    /\ gp_sleep = 0

(***************************************************************************)
(* Properties of ensure_silence_mp3 and of the playlist's silence entries  *)
(***************************************************************************)
\* the last build had a selection and a nonzero gap_ms and left no clip for
\* that gap: the clip did not exist and ffmpeg did not produce it
ClipNotCreated ==
    /\ hz_calls > 0
    /\ hz_list.ok
    /\ hz_args.gap_ms # 0
    /\ ~Exists(dir, SilenceName(hz_args.gap_ms))

NotSilenceRef(line) == ~IsSilenceRef(line)

\* C15: when gap_ms is nonzero and the clip could not be created, the build
\* still returns the playlist; no entry is a silence reference, and the
\* entries are those of the playlist built with the clip at hand, in the same
\* order, without its silence references: `repeat` references per existing
\* selected verse, ascending.
C15_ClipFailureOmitsGaps ==
    ClipNotCreated =>
        /\ hz_ret = Ok(M3uName)
        /\ hz_ffmpeg = 1
        /\ hz_silence = None
        /\ \A i \in 1..Len(PlaylistEntries) : ~IsSilenceRef(PlaylistEntries[i])
        /\ PlaylistEntries =
               SelectSeq(ListLines(dir, hz_list.val, hz_args.repeat,
                                   Some(SilenceName(hz_args.gap_ms)),
                                   hz_args.gap_ms),
                         NotSilenceRef)
        /\ \A n \in Elements(hz_list.val) :
               Cardinality(Positions(PlaylistEntries, Mp3Name(n))) =
                   IF Exists(dir, Mp3Name(n)) THEN hz_args.repeat ELSE 0

\* C15 witness: gap 1000, ffmpeg failed, verses 1 and 2 listed twice each
\* with no silence reference
C15_Witness ==
    /\ ClipNotCreated
    /\ hz_args.gap_ms = 1000
    /\ hz_args.repeat = 2
    /\ hz_ffmpeg = 1
    /\ PlaylistEntries = <<Mp3Name(1), Mp3Name(1), Mp3Name(2), Mp3Name(2)>>

\* the entries of the playlist in directory d
EntriesOf(d) == Tail(d[M3uName])

\* C16: in every build_ayah_playlist call ffmpeg is run at most once, and
\* only if the selection succeeded, gap_ms is nonzero and the directory held
\* no .silence_{gap_ms}ms.mp3 when the call began; a clip the directory held
\* is still there with the same content, and is the one returned when it is
\* the clip of this gap_ms; no clip of another duration appears; and every
\* silence reference of the playlist written is .silence_{gap_ms}ms.mp3,
\* which exists.
C16_ClipLazyAndReused ==
    [][ hz_calls' = hz_calls + 1 =>
            /\ hz_ffmpeg' \in {0, 1}
            /\ hz_ffmpeg' = 1 =>
                   /\ hz_list'.ok
                   /\ hz_args'.gap_ms # 0
                   /\ ~Exists(dir, SilenceName(hz_args'.gap_ms))
            /\ \A name \in DOMAIN dir :
                   IsSilenceRef(name) =>
                       Exists(dir', name) /\ dir'[name] = dir[name]
            /\ \A name \in DOMAIN dir' \ DOMAIN dir :
                   IsSilenceRef(name) =>
                       /\ name = SilenceName(hz_args'.gap_ms)
                       /\ hz_ffmpeg' = 1
            /\ ( /\ hz_list'.ok
                 /\ hz_args'.gap_ms # 0
                 /\ Exists(dir, SilenceName(hz_args'.gap_ms)) ) =>
                   /\ hz_ffmpeg' = 0
                   /\ hz_silence' = Some(SilenceName(hz_args'.gap_ms))
            /\ hz_ret'.ok =>
                   \A i \in 1..Len(EntriesOf(dir')) :
                       IsSilenceRef(EntriesOf(dir')[i]) =>
                           /\ EntriesOf(dir')[i] = SilenceName(hz_args'.gap_ms)
                           /\ Exists(dir', SilenceName(hz_args'.gap_ms)) ]_vars

\* C16 witness: the second build found the clip of gap 1000 that the first
\* one had created, ran no ffmpeg and referred to the clip
C16_Witness ==
    /\ hz_calls = 2
    /\ hz_ret.ok
    /\ hz_args.gap_ms = 1000
    /\ hz_ffmpeg = 0
    /\ hz_silence = Some(SilenceName(1000))
    /\ dir[SilenceName(1000)] = SilenceAudio(1000)
    /\ \E i \in 1..Len(PlaylistEntries) : PlaylistEntries[i] = SilenceName(1000)

(***************************************************************************)
(* Properties of fetch_chapter's page sequence                             *)
(***************************************************************************)
\* C17: within one fetch_chapter call, every request answered with a page,
\* no page number is asked for twice (the requests get_page repeats after a
\* 429 are not recorded as new requests), whatever next_page the pages name;
\* so the call runs out of pages and ends.
C17_NoPageRequestedTwice ==
    \A i, j \in 1..Len(fc_queries) :
        i < j => fc_queries[i].page # fc_queries[j].page

(***************************************************************************)
(* Properties of run_filter's audio request                                *)
(***************************************************************************)
\* C18: an audio request answered with an error status (429 or 500 here)
\* ends the call and leaves the directory as it was: the verse's NNN.mp3 is
\* neither created nor truncated.  If the verse had not been handled earlier
\* in the same call the file is as the call found it, an existing one (the
\* request was forced) with its content, a missing one still missing; and a
\* wanted verse whose file is missing is requested when the loop of any run
\* reaches it.
C18_ErrorStatusLeavesFile ==
    /\ [][ (dl_pc = "send_audio" /\ dl_status' >= 400) =>
               /\ dl_pc' = "err"
               /\ dir' = dir
               /\ SameFile(dir, dir', Mp3Name(dl_verses.val[dl_idx].verse_number)) ]_vars
    /\ []( (dl_pc = "err" /\ dl_status >= 400) =>
               LET n == dl_verses.val[dl_idx].verse_number
               IN  /\ dl_log[Len(dl_log)] = <<"get", n>>
                   /\ ~HasEvent("seg", n) =>
                          /\ SameFile(dl_before, dir, Mp3Name(n))
                          /\ Exists(dir, Mp3Name(n)) => dl_args.force )
    /\ [][ ( /\ dl_pc = "next_verse"
             /\ dl_idx <= Len(dl_verses.val)
             /\ PassesFilter(dl_verses.val[dl_idx])
             /\ ~Exists(dir, Mp3Name(dl_verses.val[dl_idx].verse_number)) ) =>
               dl_pc' = "send_audio" ]_vars

\* C18 witness: a forced request for verse 1, whose file was complete, was
\* answered with status 500; the file is still complete
C18_Witness ==
    /\ dl_pc = "err"
    /\ dl_status = 500
    /\ dl_args.force
    /\ dl_idx = 1
    /\ Exists(dl_before, Mp3Name(1))
    /\ dl_before[Mp3Name(1)] = CompleteAudio
    /\ dir[Mp3Name(1)] = CompleteAudio

(***************************************************************************)
(* Properties of the playlist's shape                                      *)
(***************************************************************************)
\* C19: in the playlist of every successful build, for every repeat count
\* (0 included) and every selection, each silence reference comes right
\* after a reference to an audio file: the first entry is not a silence
\* reference and no two silence references are adjacent.
C19_SilenceFollowsFile ==
    hz_ret.ok =>
        \A i \in 1..Len(PlaylistEntries) :
            IsSilenceRef(PlaylistEntries[i]) =>
                /\ i > 1
                /\ ~IsSilenceRef(PlaylistEntries[i - 1])
                /\ IsFileRefOf(PlaylistEntries[i - 1], hz_list.val)

\* C20: after a successful build without explicit selection, for every
\* verse number n the scan detected the file the loop looks up, n padded to
\* three digits with .mp3, exists, and n has its `repeat` references in the
\* playlist: no detected verse is skipped as missing, whatever the numeric
\* file names are.
C20_DetectedVerseListed ==
    (hz_ret.ok /\ hz_args.verses = None) =>
        \A n \in Elements(hz_list.val) :
            /\ Exists(dir, Mp3Name(n))
            /\ Cardinality(Positions(PlaylistEntries, Mp3Name(n))) =
                   hz_args.repeat

(***************************************************************************)
(* Properties of a build whose selection fails                             *)
(***************************************************************************)
\* C21: a build_ayah_playlist call whose selection fails (the verse
\* specification, such as "5-2", does not parse, or the directory cannot be
\* read) returns the error and leaves the directory as it was: a playlist
\* and a pointer file written before keep their content, no file appears,
\* and ffmpeg is not run even when gap_ms is nonzero and no clip exists.
C21_SelectionFailureNoEffect ==
    [][ ( /\ hz_calls' = hz_calls + 1
          /\ \/ ~hz_list'.ok
             \/ hz_args'.verses = Some(<<"5", "-", "2">>) ) =>
            /\ hz_ret' = Err
            /\ dir' = dir
            /\ DOMAIN dir' = DOMAIN dir
            /\ Exists(dir, M3uName) => dir'[M3uName] = dir[M3uName]
            /\ Exists(dir, PointerName) => dir'[PointerName] = dir[PointerName]
            /\ hz_ffmpeg' = 0
            /\ hz_silence' = None ]_vars

\* C21 witness: after a build that wrote a playlist, a build with "5-2" and
\* gap 1000 failed; the playlist is still there and no clip was generated
C21_Witness ==
    /\ hz_calls = 2
    /\ hz_ret = Err
    /\ hz_args.verses = Some(<<"5", "-", "2">>)
    /\ hz_args.gap_ms = 1000
    /\ Exists(dir, M3uName)
    /\ Len(dir[M3uName]) > 1
    /\ Exists(dir, PointerName)
    /\ ~Exists(dir, SilenceName(1000))


(***************************************************************************)
(* The directory of the hifz command and the directories of download       *)
(***************************************************************************)
\* a path without its trailing separators
RECURSIVE StripSeparators(_)
StripSeparators(p) ==
    IF Len(p) > 1 /\ p[Len(p)] = "/"
    THEN StripSeparators(SubSeq(p, 1, Len(p) - 1))
    ELSE p

\* two paths of one directory
SameDirectory(p, q) == StripSeparators(p) = StripSeparators(q)

\* the directories into which `hifzr download --chapter chapter --out out`
\* stores audio files, one for every --reciter it accepts
DownloadDirectories(chapter, out, home) ==
    LET run(reciter) == CmdDownload([reciter |-> reciter,
                                     chapter |-> chapter, out |-> out,
                                     force |-> FALSE, home |-> home],
                                    Ok(Chapters), Ok(Reciters), TRUE)
    IN  { run(reciter).filter[1].out_root :
            reciter \in {a \in ReciterArgs : run(a).filter # None} }

\* C22: for the same chapter and output root, the directory in which the
\* hifz command looks for audio files and writes the playlist is a directory
\* into which the download command stores that chapter's audio files, with
\* or without a reciter and with or without auto_download.
C22_HifzUsesDownloadDirectory ==
    (mn_cmd.cmd = "hifz" /\ mn_build # None) =>
        \E d \in DownloadDirectories(mn_cmd.chapter, mn_cmd.out, mn_cmd.home) :
            SameDirectory(mn_build[1].out_root, d)

=============================================================================
